---- MODULE Spec2Model ----
(***************************************************************************)
(* zapp: loading a tree of provisioning tasks from YAML configuration and  *)
(* running it depth first (src/src/task.rs, config.rs, filesystem.rs,      *)
(* main.rs).  The recursion of Task::run is unfolded into steps over an    *)
(* explicit stack of the Groups in progress.                               *)
(***************************************************************************)
EXTENDS Integers, Sequences, FiniteSets, TLC

\* ------------------------------------------------------------------ bounds
\* longest top-level sequence: entries of config["tasks"], tasks of a task file
MaxTasks == 2
\* longest nested sequence: entries under a mapping key, tasks of a Group in a file
MaxKids == 1

SeqUpTo(S, n) == UNION {[1..k -> S] : k \in 0..n}

\* ------------------------------------------------------------------ Status
Success == "Success"
Failure == "Failure"
Skipped == "Skipped"
Status == {Success, Failure, Skipped}

\* impl fmt::Display for Status
StatusText(s) ==
  CASE s = Success -> "SUCCESS"
    [] s = Failure -> "FAILURE"
    [] s = Skipped -> "SKIPPED"

\* ------------------------------------------------------------------ tasks
\* Option<u32>::None of CopyTask.mode / TemplateTask.mode
NoMode == -1

\* struct Task {name, su, variant}; the variant's payload is flattened into
\* the record: tasks (Group), src/dst/mode (Copy, Symlink, Template), cmd (Shell)
MkTask(name, su, kind, tasks, src, dst, mode, cmd) ==
  [name |-> name, su |-> su, kind |-> kind, tasks |-> tasks,
   src |-> src, dst |-> dst, mode |-> mode, cmd |-> cmd]

\* Task::new: as_superuser is false
New(name, kind, tasks) == MkTask(name, FALSE, kind, tasks, "", "", NoMode, "")

\* Task::group
GroupTask(name, tasks) == New(name, "Group", tasks)

\* the value a panic of the loader leaves instead of a task
Panic == New("", "PANIC", <<>>)

\* ------------------------------------------------------------------ YAML values
\* serde_yaml::Value: Null, String, Sequence, Mapping (ordered pairs)
Null == [t |-> "null", s |-> "", items |-> <<>>]
Str(s) == [t |-> "str", s |-> s, items |-> <<>>]
SeqV(items) == [t |-> "seq", s |-> "", items |-> items]
Pair(k, v) == [t |-> "pair", s |-> "", items |-> <<k, v>>]
MapV(pairs) == [t |-> "map", s |-> "", items |-> pairs]

\* ------------------------------------------------------------------ permissions
\* u32::from_str_radix(&mode.to_string(), 8): the decimal digits read as octal;
\* -1 stands for Err
FromStrRadix8[n \in Nat] ==
  IF n < 10 THEN (IF n < 8 THEN n ELSE -1)
  ELSE LET hi == FromStrRadix8[n \div 10]
           lo == n % 10
       IN IF hi = -1 \/ lo >= 8 THEN -1 ELSE hi * 8 + lo

\* filesystem::parse_permissions: None stays None, Some(s) is parsed in base 8
\* and an unparsable number is a deserialization error
PermsInvalid(raw) == raw # NoMode /\ FromStrRadix8[raw] = -1
parse_permissions(raw) == IF raw = NoMode THEN NoMode ELSE FromStrRadix8[raw]

\* ------------------------------------------------------------------ state
VARIABLES
  config,   \* config["tasks"] of config.yaml, a YAML value
  files,    \* the task files under tasks/: name -> what File::open and serde find
  pc,       \* "load", "call" (Task::run entered), "ret" (Task::run returned),
            \* "done" (main returned), "aborted" (panic)
  root,     \* the Task tree parse_config built
  stack,    \* Groups whose iteration is in progress: [path, idx of the running child]
  depth,    \* params.depth
  ret,      \* the Status the last Task::run returned
  out,      \* the lines printed on stdout
  fs,       \* the filesystem: path -> [kind, data, mode]
  log,      \* what happened, in order: [path, op, res]
  exit      \* how the process ended: "running", "success", "failure"

vars == <<config, files, pc, root, stack, depth, ret, out, fs, log, exit>>

\* ------------------------------------------------------------------ loader
FileNames == {"a"}

\* serde's view of one task of a task file: filesystem::parse_permissions is
\* applied to the mode of copy and template tasks, Groups are read recursively
RECURSIVE Deserialize(_)
Deserialize(raw) ==
  IF raw.kind = "Group"
  THEN LET kids == [i \in 1..Len(raw.tasks) |-> Deserialize(raw.tasks[i])]
       IN IF \E i \in 1..Len(kids) : kids[i] = Panic
          THEN Panic ELSE [raw EXCEPT !.tasks = kids]
  ELSE IF PermsInvalid(raw.mode) THEN Panic
  ELSE [raw EXCEPT !.mode = parse_permissions(raw.mode)]

\* Task::load_from_file: File::open(...).expect, serde_yaml::from_reader(...).expect
load_from_file(task_name, fls) ==
  IF task_name \notin FileNames \/ fls[task_name].state # "tasks" THEN Panic
  ELSE LET raw == fls[task_name].tasks
           tasks == [i \in 1..Len(raw) |-> Deserialize(raw[i])]
       IN IF \E i \in 1..Len(tasks) : tasks[i] = Panic
          THEN Panic ELSE GroupTask(task_name, tasks)

\* a faulty variant of Task::parse_from_config: the Group of a mapping is given the
\* name of the enclosing Group instead of the mapping's key
RECURSIVE parse_from_config_outer_name(_, _, _)
parse_from_config_outer_name(task_name, cfg, fls) ==
  IF cfg.t # "seq" THEN Panic
  ELSE LET entry(t) ==
             CASE t.t = "str" -> load_from_file(t.s, fls)
               [] t.t = "map" ->
                    IF t.items = <<>> THEN Panic
                    ELSE LET k == t.items[1].items[1]
                             v == t.items[1].items[2]
                         IN IF k.t # "str" THEN Panic
                            ELSE parse_from_config_outer_name(task_name, v, fls)
               [] OTHER -> New("unknown", "Unknown", <<>>)
           tasks == [i \in 1..Len(cfg.items) |-> entry(cfg.items[i])]
       IN IF \E i \in 1..Len(tasks) : tasks[i] = Panic
          THEN Panic ELSE GroupTask(task_name, tasks)

\* Task::parse_from_config
RECURSIVE parse_from_config(_, _, _)
parse_from_config(task_name, cfg, fls) ==
  IF cfg.t # "seq" THEN Panic                        \* as_sequence().unwrap()
  ELSE LET entry(t) ==
             CASE t.t = "str" -> load_from_file(t.s, fls)
               [] t.t = "map" ->
                    IF t.items = <<>> THEN Panic     \* m.iter().next().unwrap()
                    ELSE LET k == t.items[1].items[1]
                             v == t.items[1].items[2]
                         IN IF k.t # "str" THEN Panic   \* k.as_str().unwrap()
                            ELSE parse_from_config(k.s, v, fls)
               [] OTHER -> New("unknown", "Unknown", <<>>)
           tasks == [i \in 1..Len(cfg.items) |-> entry(cfg.items[i])]
       IN IF \E i \in 1..Len(tasks) : tasks[i] = Panic
          THEN Panic ELSE GroupTask(task_name, tasks)

\* ------------------------------------------------------------------ inputs
\* tasks as a task file spells them; modes are still the numbers written there
RawCopy(su) == MkTask("", su, "copy", <<>>, "f", "/p/c", NoMode, "")
RawSymlink(su) == MkTask("", su, "symlink", <<>>, "f", "/p/l", NoMode, "")
RawTemplate(su) == MkTask("", su, "template", <<>>, "t", "/p/c/t", 644, "")
RawShell(su) == MkTask("", su, "shell", <<>>, "", "", NoMode, "cmd")
RawUnknown(su) == MkTask("", su, "Unknown", <<>>, "", "", NoMode, "")
RawGroup(su, tasks) == MkTask("g", su, "Group", tasks, "", "", NoMode, "")

Leaves ==
  UNION {{RawCopy(su), RawSymlink(su), RawTemplate(su), RawShell(su), RawUnknown(su)} :
         su \in BOOLEAN}

\* the leaves the nested shapes are built from
PlainLeaves == {RawShell(FALSE), RawUnknown(FALSE)}

NestedTasks ==
  PlainLeaves \cup {RawGroup(su, kids) : su \in BOOLEAN, kids \in SeqUpTo(PlainLeaves, MaxKids)}

TaskFile(tasks) == [state |-> "tasks", tasks |-> tasks]
MissingFile == [state |-> "missing", tasks |-> <<>>]
GarbageFile == [state |-> "garbage", tasks |-> <<>>]

\* task files of every leaf kind, flat, and of nested Groups over plain leaves
RunFiles ==
  {TaskFile(ts) : ts \in SeqUpTo(Leaves, MaxTasks) \cup SeqUpTo(NestedTasks, MaxTasks)}

\* task files the loader rejects, or whose task has a destination without parent
OddFiles ==
  {MissingFile, GarbageFile,
   TaskFile(<<MkTask("", FALSE, "copy", <<>>, "f", "/p/c", 689, "")>>),
   TaskFile(<<RawGroup(FALSE, <<MkTask("", FALSE, "template", <<>>, "t", "/p/c/t", 8, "")>>)>>),
   TaskFile(<<MkTask("", FALSE, "symlink", <<>>, "f", "/", NoMode, "")>>)}

SmallFiles == {TaskFile(<<>>), TaskFile(<<RawShell(FALSE)>>), MissingFile}

RunConfigs ==
  {SeqV(<<Str("a")>>),
   SeqV(<<MapV(<<Pair(Str("setup"), SeqV(<<Str("a"), Null>>))>>), Str("a")>>)}

\* the entries of a config sequence: file references, scalars, mappings
Keys == {Str("setup"), Str("shell"), Null}
Entries0 == {Str("a"), Null}
MapValues == {Str("cmd")} \cup {SeqV(items) : items \in SeqUpTo(Entries0, MaxKids)}
Entries1 ==
  Entries0 \cup {MapV(<<>>)} \cup {MapV(<<Pair(k, v)>>) : k \in Keys, v \in MapValues}
  \cup {MapV(<<Pair(Str("copy"), SeqV(<<>>)), Pair(Str("setup"), Null)>>)}
LoadConfigs == {Null, Str("a")} \cup {SeqV(items) : items \in SeqUpTo(Entries1, MaxTasks)}

Paths == {"/p", "/p/c", "/p/c/t", "/p/l"}
NoFile == [kind |-> "none", data |-> <<>>, mode |-> NoMode]

Init ==
  /\ \E in \in (RunConfigs \X [FileNames -> RunFiles \cup OddFiles])
               \cup (LoadConfigs \X [FileNames -> SmallFiles]) :
       config = in[1] /\ files = in[2]
  /\ pc = "load"
  /\ root = Panic
  /\ stack = <<>>
  /\ depth = 0
  /\ ret = Skipped
  /\ out = <<>>
  /\ fs = [p \in Paths |-> NoFile]
  /\ log = <<>>
  /\ exit = "running"

Ev(path, op, res) == [path |-> path, op |-> op, res |-> res]

\* ------------------------------------------------------------------ config::parse_config
\* reads config.yaml (expect), builds Params::new(context) with depth 0 and the
\* root Group "main" from config["tasks"]
ParseConfig ==
  /\ pc = "load"
  /\ \E readable \in BOOLEAN :
       LET task == IF readable THEN parse_from_config("main", config, files) ELSE Panic
       IN /\ IF task = Panic
             THEN /\ pc' = "aborted"
                  /\ exit' = "failure"
                  /\ UNCHANGED <<root, depth>>
             ELSE /\ pc' = "call"
                  /\ root' = task
                  /\ depth' = 0
                  /\ UNCHANGED exit
          /\ log' = IF readable THEN log ELSE <<Ev(<<>>, "config", "unreadable")>>
  /\ UNCHANGED <<config, files, stack, ret, out, fs>>

\* ------------------------------------------------------------------ traversal state
\* the task Task::run is entered on, or has returned from: the running child of
\* the innermost Group in progress, or the root
Cur ==
  IF stack = <<>> THEN <<>>
  ELSE Append(stack[Len(stack)].path, stack[Len(stack)].idx)

RECURSIVE TaskAt(_, _)
TaskAt(t, path) == IF path = <<>> THEN t ELSE TaskAt(t.tasks[Head(path)], Tail(path))

CurTask == TaskAt(root, Cur)

\* println!("{: <1$}{name}: {status}", "", params.depth * 2, ...): the empty
\* string padded on the right to the width, then the name and the status text
Pad(width) == [i \in 1..width |-> " "]
Indent(d) == Pad(d * 2)
Line(path, d, name, status) ==
  [path |-> path, indent |-> Indent(d), name |-> name, status |-> StatusText(status)]

\* a faulty variant of the as_superuser test: the flag is ignored
PrivilegedIgnored(task) == FALSE

\* Task::run, `if !self.as_superuser`
Privileged(task) == task.su

\* a faulty variant of the report: a Skipped task is not printed
ReturnsQuietSkip(status, newfs, evs) ==
  /\ pc' = "ret"
  /\ ret' = status
  /\ out' = IF status = Skipped THEN out
            ELSE Append(out, Line(Cur, depth, CurTask.name, status))
  /\ fs' = newfs
  /\ log' = log \o <<Ev(Cur, "run", "")>> \o evs \o <<Ev(Cur, "return", status)>>
  /\ UNCHANGED <<config, files, root, stack, depth, exit>>

\* a leaf's Task::run gets its status, prints its line and returns it
Returns(status, newfs, evs) ==
  /\ pc' = "ret"
  /\ ret' = status
  /\ out' = Append(out, Line(Cur, depth, CurTask.name, status))
  /\ fs' = newfs
  /\ log' = log \o <<Ev(Cur, "run", "")>> \o evs \o <<Ev(Cur, "return", status)>>
  /\ UNCHANGED <<config, files, root, stack, depth, exit>>

\* a faulty variant of a panic: the task is reported as a Failure before the abort
PanicsAfterReport(newfs, evs) ==
  /\ pc' = "aborted"
  /\ exit' = "failure"
  /\ fs' = newfs
  /\ log' = log \o <<Ev(Cur, "run", "")>> \o evs
  /\ out' = Append(out, Line(Cur, depth, CurTask.name, Failure))
  /\ UNCHANGED <<config, files, root, stack, depth, ret>>

\* a panic inside Task::run unwinds through main: nothing more is printed
Panics(newfs, evs) ==
  /\ pc' = "aborted"
  /\ exit' = "failure"
  /\ fs' = newfs
  /\ log' = log \o <<Ev(Cur, "run", "")>> \o evs
  /\ UNCHANGED <<config, files, root, stack, depth, ret, out>>

\* ------------------------------------------------------------------ filesystem
\* Path::parent; "" stands for None
Parent(p) ==
  CASE p = "/p" -> "/"
    [] p = "/p/c" -> "/p"
    [] p = "/p/c/t" -> "/p/c"
    [] p = "/p/l" -> "/p"
    [] OTHER -> ""

KindOf(fsys, p) == IF p = "/" THEN "dir" ELSE fsys[p].kind

\* fs::create_dir_all: the missing ancestors, then the directory itself
RECURSIVE MkdirAll(_, _)
MkdirAll(fsys, dir) ==
  IF KindOf(fsys, dir) # "none" THEN fsys
  ELSE [MkdirAll(fsys, Parent(dir)) EXCEPT ![dir] = [kind |-> "dir", data |-> <<>>, mode |-> NoMode]]

\* config::asset for a relative path: CONFIG_DIR/asset_dir/asset_path
asset(asset_dir, asset_path) == <<asset_dir, asset_path>>

\* filesystem::create_valid_parent: parent().unwrap(), assert!(!parent.is_file()),
\* create_dir_all(parent).unwrap() when the parent does not exist
create_valid_parent(fsys, path, mkdirOk) ==
  LET parent == Parent(path) IN
  IF parent = "" THEN [panic |-> TRUE, fs |-> fsys, evs |-> <<>>]
  ELSE IF KindOf(fsys, parent) = "file" THEN [panic |-> TRUE, fs |-> fsys, evs |-> <<>>]
  ELSE IF KindOf(fsys, parent) = "none"
       THEN IF mkdirOk
            THEN [panic |-> FALSE, fs |-> MkdirAll(fsys, parent),
                  evs |-> <<Ev(Cur, "mkdir", "ok")>>]
            ELSE [panic |-> TRUE, fs |-> fsys, evs |-> <<Ev(Cur, "mkdir", "err")>>]
  ELSE [panic |-> FALSE, fs |-> fsys, evs |-> <<>>]

\* filesystem::set_permissions: None is Ok(()), Some(mode) is a chmod
set_permissions(fsys, path, mode, chmodOk) ==
  IF mode = NoMode THEN [ok |-> TRUE, fs |-> fsys, evs |-> <<>>]
  ELSE IF chmodOk
       THEN [ok |-> TRUE, fs |-> [fsys EXCEPT ![path].mode = mode],
             evs |-> <<Ev(Cur, "chmod", "ok")>>]
       ELSE [ok |-> FALSE, fs |-> fsys, evs |-> <<Ev(Cur, "chmod", "err")>>]

\* fs::copy and fs::write put data in a file at path: "ok", "err" (nothing
\* touched) or "partial" (the file was created or truncated, then the write
\* failed); a directory at path is always an error
IoOn(fsys, path, io) == IF KindOf(fsys, path) = "dir" THEN "err" ELSE io

PutFile(fsys, path, data, io) ==
  CASE io = "ok" -> [fsys EXCEPT ![path] = [kind |-> "file", data |-> data, mode |-> @.mode]]
    [] io = "partial" -> [fsys EXCEPT ![path] = [kind |-> "file", data |-> <<>>, mode |-> @.mode]]
    [] OTHER -> fsys

\* TEMPLATES.render(&self.src, &params.context), when it is Ok
Render(src) == <<"rendered", src>>

\* what a leaf's run comes to: a panic, or a status; the filesystem it leaves
\* and the calls it made
Outcome(panic, status, fsys, evs) ==
  [panic |-> panic, status |-> status, fs |-> fsys, evs |-> evs]

\* CopyTask::run
CopyTaskRun(task, fsys, mkdirOk, io, chmodOk) ==
  LET src == asset("files", task.src)
      dst == task.dst
      par == create_valid_parent(fsys, dst, mkdirOk)
      res == IoOn(par.fs, dst, io)
      fs1 == PutFile(par.fs, dst, <<"bytes">> \o src, res)
      evs1 == par.evs \o <<Ev(Cur, "copy", res)>>
      perm == set_permissions(fs1, dst, task.mode, chmodOk)
  IN IF par.panic THEN Outcome(TRUE, Failure, par.fs, par.evs)
     ELSE IF res # "ok" THEN Outcome(FALSE, Failure, fs1, evs1)
     ELSE Outcome(FALSE, IF perm.ok THEN Success ELSE Failure, perm.fs, evs1 \o perm.evs)

\* SymlinkTask::run; symlink(2) fails when something is at dst
SymlinkTaskRun(task, fsys, mkdirOk, io) ==
  LET src == asset("files", task.src)
      dst == task.dst
      par == create_valid_parent(fsys, dst, mkdirOk)
      res == IF KindOf(par.fs, dst) # "none" THEN "err" ELSE io
  IN IF par.panic THEN Outcome(TRUE, Failure, par.fs, par.evs)
     ELSE IF res = "ok"
     THEN Outcome(FALSE, Success,
                  [par.fs EXCEPT ![dst] =
                     [kind |-> "link", data |-> <<"link">> \o src, mode |-> NoMode]],
                  par.evs \o <<Ev(Cur, "symlink", "ok")>>)
     ELSE Outcome(FALSE, Failure, par.fs, par.evs \o <<Ev(Cur, "symlink", "err")>>)

\* a faulty variant of TemplateTask::run: a render error does not return, the empty
\* text is written
TemplateTaskRunNoReturn(task, fsys, rendered, mkdirOk, io, chmodOk) ==
  LET text == IF rendered THEN Render(task.src) ELSE <<>>
      dst == task.dst
      par == create_valid_parent(fsys, dst, mkdirOk)
      evs0 == <<Ev(Cur, "render", IF rendered THEN "ok" ELSE "err")>> \o par.evs
      res == IoOn(par.fs, dst, io)
      fs1 == PutFile(par.fs, dst, text, res)
      evs1 == evs0 \o <<Ev(Cur, "write", res)>>
      perm == set_permissions(fs1, dst, task.mode, chmodOk)
  IN IF par.panic THEN Outcome(TRUE, Failure, par.fs, evs0)
     ELSE IF res # "ok" \/ ~rendered THEN Outcome(FALSE, Failure, fs1, evs1)
     ELSE Outcome(FALSE, IF perm.ok THEN Success ELSE Failure, perm.fs, evs1 \o perm.evs)

\* TemplateTask::run
TemplateTaskRun(task, fsys, rendered, mkdirOk, io, chmodOk) ==
  IF ~rendered THEN Outcome(FALSE, Failure, fsys, <<Ev(Cur, "render", "err")>>)
  ELSE
  LET text == Render(task.src)
      dst == task.dst
      par == create_valid_parent(fsys, dst, mkdirOk)
      evs0 == <<Ev(Cur, "render", "ok")>> \o par.evs
      res == IoOn(par.fs, dst, io)
      fs1 == PutFile(par.fs, dst, text, res)
      evs1 == evs0 \o <<Ev(Cur, "write", res)>>
      perm == set_permissions(fs1, dst, task.mode, chmodOk)
  IN IF par.panic THEN Outcome(TRUE, Failure, par.fs, evs0)
     ELSE IF res # "ok" THEN Outcome(FALSE, Failure, fs1, evs1)
     ELSE Outcome(FALSE, IF perm.ok THEN Success ELSE Failure, perm.fs, evs1 \o perm.evs)

\* a faulty variant of ShellTask::run: the exit code is not looked at
ShellTaskRunAnyExit(task, fsys, res) ==
  IF res = "launchfail" THEN Outcome(TRUE, Failure, fsys, <<Ev(Cur, "spawn", res)>>)
  ELSE Outcome(FALSE, Success, fsys, <<Ev(Cur, "spawn", res)>>)

\* ShellTask::run: Command::new("/usr/bin/sh").args(["-c", cmd]).status().expect,
\* then exit_code.success()
ShellTaskRun(task, fsys, res) ==
  IF res = "launchfail" THEN Outcome(TRUE, Failure, fsys, <<Ev(Cur, "spawn", res)>>)
  ELSE Outcome(FALSE, IF res = "exit0" THEN Success ELSE Failure,
               fsys, <<Ev(Cur, "spawn", res)>>)

\* ------------------------------------------------------------------ Task::run
Ends(o) == IF o.panic THEN Panics(o.fs, o.evs) ELSE Returns(o.status, o.fs, o.evs)

IoChoices == {"ok", "err", "partial"}

\* as_superuser: the variant is not run, the status is Skipped
RunPrivileged ==
  /\ pc = "call"
  /\ Privileged(CurTask)
  /\ Returns(Skipped, fs, <<>>)

\* TaskType::Unknown
RunUnknown ==
  /\ pc = "call"
  /\ ~Privileged(CurTask)
  /\ CurTask.kind = "Unknown"
  /\ Returns(Skipped, fs, <<>>)

\* TaskType::Copy
RunCopy ==
  /\ pc = "call"
  /\ ~Privileged(CurTask)
  /\ CurTask.kind = "copy"
  /\ \E mkdirOk \in BOOLEAN, io \in IoChoices, chmodOk \in BOOLEAN :
       Ends(CopyTaskRun(CurTask, fs, mkdirOk, io, chmodOk))

\* TaskType::Symlink
RunSymlink ==
  /\ pc = "call"
  /\ ~Privileged(CurTask)
  /\ CurTask.kind = "symlink"
  /\ \E mkdirOk \in BOOLEAN, io \in {"ok", "err"} :
       Ends(SymlinkTaskRun(CurTask, fs, mkdirOk, io))

\* TaskType::Template
RunTemplate ==
  /\ pc = "call"
  /\ ~Privileged(CurTask)
  /\ CurTask.kind = "template"
  /\ \E rendered \in BOOLEAN, mkdirOk \in BOOLEAN, io \in IoChoices, chmodOk \in BOOLEAN :
       Ends(TemplateTaskRun(CurTask, fs, rendered, mkdirOk, io, chmodOk))

\* TaskType::Shell
RunShell ==
  /\ pc = "call"
  /\ ~Privileged(CurTask)
  /\ CurTask.kind = "shell"
  /\ \E res \in {"launchfail", "exit0", "exit1"} :
       Ends(ShellTaskRun(CurTask, fs, res))

\* ------------------------------------------------------------------ TaskType::run, Group
\* .find(|&s| s == Status::Failure): the lazy iterator stops at the first match
FindMatches(s) == s = Failure

\* a faulty variant of unwrap_or: a Group none of whose children failed is Skipped
GroupStatusSkipped(found) == IF found THEN Failure ELSE Skipped

\* .unwrap_or(Status::Success)
GroupStatus(found) == IF found THEN Failure ELSE Success

\* a faulty variant of the Group's return: params.depth is not decremented
GroupReturnsKeepDepth(path, status) ==
  /\ depth' = depth
  /\ out' = Append(out, Line(path, depth', TaskAt(root, path).name, status))
  /\ ret' = status
  /\ pc' = "ret"

\* the Group has its status: params.depth -= 1, then Task::run prints and returns
GroupReturns(path, status) ==
  /\ depth' = depth - 1
  /\ out' = Append(out, Line(path, depth', TaskAt(root, path).name, status))
  /\ ret' = status
  /\ pc' = "ret"

\* Task::run enters a Group: params.depth += 1 and the first child is run; an
\* empty iterator gives None at once
GroupEnter ==
  /\ pc = "call"
  /\ ~Privileged(CurTask)
  /\ CurTask.kind = "Group"
  /\ IF CurTask.tasks = <<>>
     THEN /\ depth' = depth
          /\ out' = Append(out, Line(Cur, depth, CurTask.name, GroupStatus(FALSE)))
          /\ ret' = GroupStatus(FALSE)
          /\ pc' = "ret"
          /\ log' = log \o <<Ev(Cur, "run", ""), Ev(Cur, "return", GroupStatus(FALSE))>>
          /\ UNCHANGED stack
     ELSE /\ depth' = depth + 1
          /\ stack' = Append(stack, [path |-> Cur, idx |-> 1])
          /\ pc' = "call"
          /\ log' = Append(log, Ev(Cur, "run", ""))
          /\ UNCHANGED <<out, ret>>
  /\ UNCHANGED <<config, files, root, fs, exit>>

\* a child returned a status find does not match and children remain: the next
\* child is run
GroupNext ==
  /\ pc = "ret"
  /\ stack # <<>>
  /\ LET top == stack[Len(stack)] IN
       /\ ~FindMatches(ret)
       /\ top.idx < Len(TaskAt(root, top.path).tasks)
       /\ stack' = [stack EXCEPT ![Len(stack)].idx = top.idx + 1]
  /\ pc' = "call"
  /\ UNCHANGED <<config, files, root, depth, ret, out, fs, log, exit>>

\* find matched the child's status, or the children are exhausted
GroupExit ==
  /\ pc = "ret"
  /\ stack # <<>>
  /\ LET top == stack[Len(stack)]
         status == GroupStatus(FindMatches(ret))
     IN /\ FindMatches(ret) \/ top.idx >= Len(TaskAt(root, top.path).tasks)
        /\ stack' = SubSeq(stack, 1, Len(stack) - 1)
        /\ GroupReturns(top.path, status)
        /\ log' = Append(log, Ev(top.path, "return", status))
  /\ UNCHANGED <<config, files, root, fs, exit>>

\* ------------------------------------------------------------------ main
\* tasks.run(&mut params); the status is dropped and main returns ()
ExitSignal(status) == "success"

MainReturn ==
  /\ pc = "ret"
  /\ stack = <<>>
  /\ pc' = "done"
  /\ exit' = ExitSignal(ret)
  /\ UNCHANGED <<config, files, root, stack, depth, ret, out, fs, log>>

Next ==
  \/ ParseConfig
  \/ RunPrivileged
  \/ RunUnknown
  \/ RunCopy
  \/ RunSymlink
  \/ RunTemplate
  \/ RunShell
  \/ GroupEnter
  \/ GroupNext
  \/ GroupExit
  \/ MainReturn

Spec == Init /\ [][Next]_vars

\* ================================================================== properties
IsPrefix(p, q) == Len(p) <= Len(q) /\ SubSeq(q, 1, Len(p)) = p
IsProperPrefix(p, q) == Len(p) < Len(q) /\ IsPrefix(p, q)

\* the paths of the nodes of a task tree
RECURSIVE Nodes(_)
Nodes(t) ==
  {<<>>} \cup UNION {{<<i>> \o p : p \in Nodes(t.tasks[i])} : i \in 1..Len(t.tasks)}

Loaded == root # Panic
NodeSet == IF Loaded THEN Nodes(root) ELSE {}
Node(p) == TaskAt(root, p)
Children(p) == {Append(p, i) : i \in 1..Len(Node(p).tasks)}

Invoked(p) == \E k \in 1..Len(log) : log[k] = Ev(p, "run", "")
ReturnedWith(p, s) == \E k \in 1..Len(log) : log[k] = Ev(p, "return", s)
Returned(p) == \E s \in Status : ReturnedWith(p, s)
LinesOf(p) == {i \in 1..Len(out) : out[i].path = p}
EventsOf(p) == {k \in 1..Len(log) : log[k].path = p}

EffectOps == {"mkdir", "copy", "write", "chmod", "symlink", "spawn"}
LeafKinds == {"copy", "symlink", "template", "shell"}

\* ------------------------------------------------------------------ C1
\* C1: when a non-privileged Group is run, every one of its children is run,
\* also the children after one that returned Failure.
C1_EveryChildIsRun ==
  pc = "done" =>
    \A g \in NodeSet :
      (Node(g).kind = "Group" /\ ~Node(g).su /\ Invoked(g)) =>
        \A c \in Children(g) : Invoked(c)

\* ------------------------------------------------------------------ C2
\* C2: the status a non-privileged Group returns is Failure exactly when one of
\* its direct children returned Failure, and Success otherwise; never Skipped.
C2_GroupStatus ==
  \A k \in 1..Len(log) :
    (log[k].op = "return" /\ Node(log[k].path).kind = "Group" /\ ~Node(log[k].path).su) =>
      /\ log[k].res \in {Success, Failure}
      /\ log[k].res = Failure <=> \E c \in Children(log[k].path) : ReturnedWith(c, Failure)

\* a Group with children, all of them Skipped, has returned Success
C2_Witness ==
  \E g \in NodeSet :
    /\ Node(g).kind = "Group" /\ ~Node(g).su /\ Node(g).tasks # <<>>
    /\ ReturnedWith(g, Success)
    /\ \A c \in Children(g) : ReturnedWith(c, Skipped)

\* ------------------------------------------------------------------ C3
\* C3: a task whose su flag is set returns and reports Skipped, and its run
\* touches neither the filesystem nor a process nor depth; nothing below a
\* privileged Group is run or reported.
C3_PrivilegedSkipped ==
  /\ [](\A p \in NodeSet : \A q \in NodeSet :
          (Node(q).su /\ IsProperPrefix(q, p)) => (EventsOf(p) = {} /\ LinesOf(p) = {}))
  /\ [][(pc = "call" /\ CurTask.su) =>
          /\ pc' = "ret" /\ ret' = Skipped
          /\ fs' = fs /\ depth' = depth /\ stack' = stack
          /\ log' = log \o <<Ev(Cur, "run", ""), Ev(Cur, "return", Skipped)>>
          /\ Len(out') = Len(out) + 1
          /\ SubSeq(out', 1, Len(out)) = out
          /\ out'[Len(out')].path = Cur
          /\ out'[Len(out')].status = "SKIPPED"]_vars

\* a privileged Group that has children was run
C3_Witness ==
  \E g \in NodeSet :
    Node(g).su /\ Node(g).kind = "Group" /\ Node(g).tasks # <<>> /\ ReturnedWith(g, Skipped)

\* ------------------------------------------------------------------ C4
\* C4: every line printed is indented by two spaces for each Group above the
\* node it reports; the root Group's line is not indented.
C4_Indentation ==
  \A i \in 1..Len(out) : out[i].indent = [k \in 1..(2 * Len(out[i].path)) |-> " "]

\* a node three Groups deep was reported after a Failure
C4_Witness ==
  \E i \in 1..Len(out) : \E j \in 1..Len(out) :
    i < j /\ out[i].status = "FAILURE" /\ Len(out[j].path) = 3 /\ Len(out[j].indent) = 6

\* ------------------------------------------------------------------ C5
ReturnsOf(p) == {k \in 1..Len(log) : log[k].path = p /\ log[k].op = "return"}
IsLeaf(p) == Node(p).kind # "Group"

FatalAt(p) ==
  /\ log[Len(log)].path = p
  /\ \/ log[Len(log)] = Ev(p, "spawn", "launchfail")
     \/ log[Len(log)] = Ev(p, "mkdir", "err")
     \/ /\ Node(p).kind \in {"copy", "symlink", "template"}
        /\ Parent(Node(p).dst) = "" \/ KindOf(fs, Parent(Node(p).dst)) = "file"

C6_NoPartialReport == pc = "aborted" => out = <<>>

\* C6, amended: a fatal error while loading aborts before any line is printed
\* and before anything is run; a fatal error while running prints no line for
\* the faulting task nor for the Groups around it, the lines already printed
\* are those of the tasks that had returned, and nothing happens after the abort.
C6_AbortStopsReport ==
  /\ [](pc = "aborted" =>
          /\ exit = "failure"
          /\ ~Loaded => (out = <<>> /\ fs = [p \in Paths |-> NoFile]
                         /\ \A k \in 1..Len(log) : log[k].op = "config")
          /\ Loaded => \A i \in 1..Len(out) :
                         /\ ~IsPrefix(out[i].path, log[Len(log)].path)
                         /\ Returned(out[i].path))
  /\ [][pc # "aborted"]_vars

\* the run aborted after lines had been printed
C6_Witness == pc = "aborted" /\ Loaded /\ out # <<>>

\* ------------------------------------------------------------------ C7
\* C7: a non-privileged Template task whose render fails returns Failure and
\* leaves the filesystem as it was; when the render, the write and the mode
\* succeed it returns Success and the destination holds the rendered text.
C7_Template ==
  [][(pc = "call" /\ CurTask.kind = "template" /\ ~CurTask.su) =>
       LET new == SubSeq(log', Len(log) + 1, Len(log'))
           has(op, res) == \E k \in 1..Len(new) : new[k] = Ev(Cur, op, res)
           dst == CurTask.dst
       IN /\ has("render", "err") \/ has("render", "ok")
          /\ has("render", "err") =>
               /\ pc' = "ret" /\ ret' = Failure /\ fs' = fs
               /\ \A k \in 1..Len(new) : new[k].op \notin EffectOps
          /\ (has("render", "ok") /\ has("write", "ok") /\ ~has("chmod", "err")) =>
               /\ pc' = "ret" /\ ret' = Success
               /\ fs'[dst].kind = "file"
               /\ fs'[dst].data = Render(CurTask.src)
               /\ CurTask.mode # NoMode => fs'[dst].mode = CurTask.mode]_vars

\* a Template task returned Success, its text and mode 0644 are at the destination
C7_Witness ==
  \E p \in NodeSet :
    /\ Node(p).kind = "template" /\ ReturnedWith(p, Success)
    /\ fs[Node(p).dst] = [kind |-> "file", data |-> Render(Node(p).src), mode |-> 420]

\* ------------------------------------------------------------------ C8
\* C8: the process signals failure when the root Group returned Failure and
\* success when it returned Success.
C8_ExitReflectsStatus == pc = "done" => (exit = "failure" <=> ret = Failure)

\* ------------------------------------------------------------------ C9
Readable == log = <<>> \/ log[1].op # "config"
KeyOf(e) == e.items[1].items[1]
ValueOf(e) == e.items[1].items[2]

\* the entries C9 speaks of: single-key mappings with a string key, whose value
\* is a sequence of such entries unless the key is a leaf kind, and values that
\* are neither strings nor mappings
RECURSIVE Covered(_)
Covered(e) ==
  \/ e.t \notin {"str", "map"}
  \/ /\ e.t = "map" /\ Len(e.items) = 1 /\ KeyOf(e).t = "str"
     /\ \/ KeyOf(e).s \in LeafKinds
        \/ /\ ValueOf(e).t = "seq"
           /\ \A i \in 1..Len(ValueOf(e).items) : Covered(ValueOf(e).items[i])

BadMode(m) == m # NoMode /\ \E d \in {m % 10, (m \div 10) % 10, m \div 100} : d >= 8

RECURSIVE BadRaw(_)
BadRaw(raw) ==
  IF raw.kind = "Group" THEN \E i \in 1..Len(raw.tasks) : BadRaw(raw.tasks[i])
  ELSE BadMode(raw.mode)

FatalFile(name) ==
  \/ name \notin FileNames
  \/ files[name].state # "tasks"
  \/ \E i \in 1..Len(files[name].tasks) : BadRaw(files[name].tasks[i])

\* the configurations the loader cannot load
RECURSIVE FatalConfig(_)
FatalConfig(cfg) ==
  \/ cfg.t # "seq"
  \/ \E i \in 1..Len(cfg.items) :
       LET e == cfg.items[i] IN
         \/ e.t = "str" /\ FatalFile(e.s)
         \/ e.t = "map" /\ (e.items = <<>> \/ KeyOf(e).t # "str" \/ FatalConfig(ValueOf(e)))

\* a Group named name whose children are the entries of cfg, in order
RECURSIVE LoadedAs(_, _, _)
LoadedAs(task, name, cfg) ==
  /\ task.kind = "Group" /\ task.name = name /\ ~task.su
  /\ Len(task.tasks) = Len(cfg.items)
  /\ \A i \in 1..Len(cfg.items) :
       LET e == cfg.items[i]
           t == task.tasks[i]
       IN CASE e.t = "str" ->
                 /\ t.kind = "Group" /\ t.name = e.s /\ ~t.su
                 /\ Len(t.tasks) = Len(files[e.s].tasks)
                 /\ \A j \in 1..Len(t.tasks) :
                      /\ t.tasks[j].kind = files[e.s].tasks[j].kind
                      /\ t.tasks[j].su = files[e.s].tasks[j].su
                      /\ t.tasks[j].name = files[e.s].tasks[j].name
            [] e.t = "map" -> LoadedAs(t, KeyOf(e).s, ValueOf(e))
            [] OTHER -> t.kind = "Unknown" /\ t.name = "unknown" /\ ~t.su

IsReturn(e) == e.op = "return"

\* p is reported before q in a post-order walk: q is above p, or p is in an
\* earlier subtree
PostOrderBefore(p, q) ==
  \/ IsProperPrefix(q, p)
  \/ \E k \in 1..Len(p) :
       k <= Len(q) /\ SubSeq(p, 1, k - 1) = SubSeq(q, 1, k - 1) /\ p[k] < q[k]

====
